---------------------------- MODULE Spec2Model ----------------------------
(***************************************************************************)
(* AutoTriage-AI: ownership analysis (ownership_analyzer.py) and bug       *)
(* routing (intelligent_router.py).                                        *)
(*                                                                         *)
(* Conventions                                                             *)
(*  - a Python dict is a function; a missing key is a key outside DOMAIN;  *)
(*    dict iteration order (insertion order) is kept in a separate         *)
(*    sequence of keys where the code depends on it;                       *)
(*  - Python None is the record None (the string NoneStr among strings);  *)
(*  - scores are fixed point: complexity and ownership/expertise/total     *)
(*    scores in thousandths (milli), final_score in units of 1e-4,         *)
(*    confidence in hundredths;                                            *)
(*  - a raised exception is a record [raised |-> <exception name>].        *)
(***************************************************************************)
EXTENDS Integers, Sequences, FiniteSets, TLC

VARIABLES
    pc,                \* position of the call in progress
    bug_data,          \* argument of route_bug_report
    repo_history,      \* change-event source: the pages of commits it holds
    available,         \* availability oracle: developers it answers true for
    cache,             \* CodeOwnershipAnalyzer.cache (sha -> commit details)
    fetch_log,         \* every requests.get issued so far, oldest first
    page,              \* _get_recent_commits: local `page`
    all_commits,       \* _get_recent_commits: local `all_commits`
    ownership_data,    \* value returned by analyze_repository_ownership
    ranked_assignees,  \* argument of _select_final_assignee
    final_assignee,    \* value returned by _select_final_assignee / argument
                       \* of _calculate_confidence
    confidence,        \* value returned by _calculate_confidence
    result             \* value returned (or exception raised) by route_bug_report;
                       \* under SpecCache the last _get_commit_details call:
                       \* its argument, the value it returned and the
                       \* number of fetches it issued

vars == << pc, bug_data, repo_history, available, cache, fetch_log, page,
           all_commits, ownership_data, ranked_assignees, final_assignee,
           confidence, result >>

-----------------------------------------------------------------------------
(* Generic helpers *)

None == [py_none |-> TRUE]

\* Python None where the other values are strings (TLC compares a string
\* with strings only)
NoneStr == "None"

Min(a, b) == IF a <= b THEN a ELSE b

Range(s) == { s[i] : i \in 1..Len(s) }

\* Python slice s[lo:hi] (0-indexed, hi exclusive), clipped to the sequence
Slice(s, lo, hi) == SubSeq(s, lo + 1, Min(hi, Len(s)))

\* concatenation of a sequence of sequences
RECURSIVE Flatten(_)
Flatten(bodies) ==
    IF bodies = <<>> THEN <<>> ELSE Head(bodies) \o Flatten(Tail(bodies))

\* all sequences over S of length 0..n
SeqsUpTo(S, n) == UNION { [1..k -> S] : k \in 0..n }

\* sequences over S without repetition, of length 0..n
DistinctSeqsUpTo(S, n) ==
    { s \in SeqsUpTo(S, n) : \A i, j \in 1..Len(s) : i # j => s[i] # s[j] }

-----------------------------------------------------------------------------
(* Universe of the model *)

Developers == { "alice", "bob", "carol", "dave" }

\* Values that start every specification's unused variables
Idle == "idle"


-----------------------------------------------------------------------------
(* intelligent_router.py: availability-filtered selection *)

\* `ranked_assignees[:3]`: how many top candidates are scanned
TopCandidates == 3

\* The availability collaborator.  The shipped body answers True for every
\* developer (available = Developers); the method is the seam the Slack /
\* calendar / PTO integration replaces, so the oracle is a state variable and
\* the shipped behaviour is one of its values.
_is_developer_available(developer_email) == developer_email \in available

\* the `for assignee in ranked_assignees[:3]` loop: first available, else None
RECURSIVE FirstAvailable(_)
FirstAvailable(candidates) ==
    IF candidates = <<>> THEN None
    ELSE IF _is_developer_available(Head(candidates).developer)
         THEN Head(candidates)
         ELSE FirstAvailable(Tail(candidates))

\* mutation: the scan is not cut at the top 3
SelectScanWholeList(ranked) ==
    IF ranked = <<>> THEN None
    ELSE LET hit == FirstAvailable(ranked)
         IN  IF hit # None THEN hit ELSE ranked[1]

_select_final_assignee(ranked) ==
    IF ranked = <<>> THEN None
    ELSE LET hit == FirstAvailable(Slice(ranked, 0, TopCandidates))
         IN  IF hit # None THEN hit ELSE ranked[1]

-----------------------------------------------------------------------------
(* intelligent_router.py: confidence *)

\* final_score is in units of 1e-4, so final_score / 10 is final_score in
\* units of 1e-5; 1.0, 0.2 and 0.1 in those units:
ConfidenceOne == 100000
FileBoost == 20000
AreaBoost == 10000

\* round(x, 2) of x given in units of 1e-5, result in hundredths.  An exact
\* decimal tie (x ends in ...500) has no exact binary double; the double lies
\* just above or just below it, so round() may go either way: both outcomes.
Round2(x) ==
    LET q == x \div 1000
        r == x % 1000
    IN  IF r < 500 THEN { q }
        ELSE IF r > 500 THEN { q + 1 }
        ELSE { q, q + 1 }

\* mutation: the boosts are added without the min(..., 1.0) cap
ConfidenceUncapped(assignee) ==
    IF assignee = None THEN { 0 }
    ELSE LET base == Min(assignee.final_score, ConfidenceOne)
             withFiles == IF assignee.files_owned # <<>>
                          THEN base + FileBoost ELSE base
             withAreas == IF assignee.areas_of_expertise # <<>>
                          THEN withFiles + AreaBoost ELSE withFiles
         IN  Round2(withAreas)

\* the set of values _calculate_confidence may return (hundredths)
_calculate_confidence(assignee) ==
    IF assignee = None THEN { 0 }
    ELSE LET base == Min(assignee.final_score, ConfidenceOne)
             withFiles == IF assignee.files_owned # <<>>
                          THEN Min(base + FileBoost, ConfidenceOne) ELSE base
             withAreas == IF assignee.areas_of_expertise # <<>>
                          THEN Min(withFiles + AreaBoost, ConfidenceOne)
                          ELSE withFiles
         IN  Round2(withAreas)

-----------------------------------------------------------------------------
(* Candidate records as _find_potential_assignees / _rank_assignees build them *)

Candidate(dev, own, exp, files, areas, mult10) ==
    [ developer          |-> dev,
      total_score        |-> own + exp,
      ownership_score    |-> own,
      expertise_score    |-> exp,
      files_owned        |-> files,
      areas_of_expertise |-> areas,
      final_score        |-> (own + exp) * mult10 ]

-----------------------------------------------------------------------------
(* Specification SpecSelect: direct calls of _select_final_assignee *)

MaxRanked == 4

\* ranked lists as _rank_assignees returns them: one candidate per developer,
\* final_score non-increasing along the list
RankedOf(devs) ==
    [ i \in 1..Len(devs) |->
        Candidate(devs[i], 1000 * (Len(devs) - i + 1), 0, <<"f">>, <<>>, 10) ]

RankedLists == { RankedOf(d) : d \in DistinctSeqsUpTo(Developers, MaxRanked) }

InitSelect ==
    /\ pc = "select_call"
    /\ ranked_assignees \in RankedLists
    /\ available \in SUBSET Developers
    /\ final_assignee = None
    /\ bug_data = Idle /\ repo_history = Idle /\ cache = Idle
    /\ fetch_log = Idle /\ page = Idle /\ all_commits = Idle
    /\ ownership_data = Idle /\ confidence = Idle /\ result = Idle

SelectFinalAssignee ==
    /\ pc = "select_call"
    /\ final_assignee' = _select_final_assignee(ranked_assignees)
    /\ pc' = "select_returned"
    /\ UNCHANGED << bug_data, repo_history, available, cache, fetch_log, page,
                    all_commits, ownership_data, ranked_assignees, confidence,
                    result >>

NextSelect == SelectFinalAssignee

SpecSelect == InitSelect /\ [][NextSelect]_vars

\* C1: _select_final_assignee returns the first candidate among the top 3, in
\* rank order, that the oracle accepts; the rank-1 candidate when the oracle
\* rejects all of the top 3; and None exactly when the ranked list is empty.
C1_SelectionContract ==
    pc = "select_returned" =>
        LET top == 1..Min(TopCandidates, Len(ranked_assignees))
            ok  == { i \in top : ranked_assignees[i].developer \in available }
        IN  /\ (final_assignee = None) <=> (ranked_assignees = <<>>)
            /\ ranked_assignees # <<>> =>
                 IF ok = {}
                 THEN final_assignee = ranked_assignees[1]
                 ELSE \E i \in ok : /\ \A j \in ok : i <= j
                                    /\ final_assignee = ranked_assignees[i]

\* C1 witness: ranks 1 and 2 rejected, rank 3 accepted and returned, with a
\* rank-4 candidate present
C1_Witness ==
    /\ pc = "select_returned"
    /\ Len(ranked_assignees) = 4
    /\ ranked_assignees[1].developer \notin available
    /\ ranked_assignees[2].developer \notin available
    /\ ranked_assignees[3].developer \in available
    /\ final_assignee = ranked_assignees[3]

-----------------------------------------------------------------------------
(* Specification SpecConfidence: direct calls of _calculate_confidence, each  *)
(* call followed by a call whose argument is larger in exactly one input.     *)

\* largest final_score of the grid, in hundredths (saturation is at 10.00)
MaxFinalScore == 1100

ConfidenceGrid ==
    { [ Candidate("alice", 0, 0, files, areas, 10)
          EXCEPT !.final_score = 100 * h ] :
        h \in 0..MaxFinalScore,
        files \in { <<>>, <<"src/auth/login.py">> },
        areas \in { <<>>, <<"authentication">> } }

InitConfidence ==
    /\ pc = "confidence_call"
    /\ final_assignee \in ConfidenceGrid \cup { None }
    /\ confidence = -1       \* no call has returned yet
    /\ bug_data = Idle /\ repo_history = Idle /\ cache = Idle
    /\ fetch_log = Idle /\ page = Idle /\ all_commits = Idle
    /\ ownership_data = Idle /\ ranked_assignees = Idle /\ result = Idle
    /\ available = Developers

CalculateConfidence ==
    /\ pc = "confidence_call"
    /\ confidence' \in _calculate_confidence(final_assignee)
    /\ pc' = "confidence_returned"
    /\ UNCHANGED << bug_data, repo_history, available, cache, fetch_log, page,
                    all_commits, ownership_data, ranked_assignees,
                    final_assignee, result >>

\* the next call's argument: the same assignee with one input raised
NextArgument(assignee) ==
    /\ pc = "confidence_returned"
    /\ final_assignee # None
    /\ final_assignee' = assignee
    /\ pc' = "confidence_call"
    /\ UNCHANGED << bug_data, repo_history, available, cache, fetch_log, page,
                    all_commits, ownership_data, ranked_assignees, confidence,
                    result >>

RaiseFinalScore ==
    /\ final_assignee # None
    /\ final_assignee.final_score < 100 * MaxFinalScore
    /\ NextArgument([ final_assignee EXCEPT !.final_score = @ + 100 ])

GainFilesOwned ==
    /\ final_assignee # None
    /\ final_assignee.files_owned = <<>>
    /\ NextArgument([ final_assignee EXCEPT
                        !.files_owned = <<"src/auth/login.py">> ])

GainAreaOfExpertise ==
    /\ final_assignee # None
    /\ final_assignee.areas_of_expertise = <<>>
    /\ NextArgument([ final_assignee EXCEPT
                        !.areas_of_expertise = <<"authentication">> ])

NextConfidence ==
    \/ CalculateConfidence
    \/ RaiseFinalScore
    \/ GainFilesOwned
    \/ GainAreaOfExpertise

SpecConfidence == InitConfidence /\ [][NextConfidence]_vars

\* every returned confidence is within [0, 1] (hundredths), and 0 for None
ConfidenceInRange ==
    pc = "confidence_returned" =>
        /\ confidence \in 0..100
        /\ final_assignee = None => confidence = 0

\* a call whose argument was raised in one input returns no less than the
\* call before it (`confidence` still holds the earlier call's value when the
\* later call is made)
ConfidenceStepMonotone ==
    (pc = "confidence_call" /\ confidence >= 0) => confidence' >= confidence

\* C10: _calculate_confidence returns a value in [0, 1], 0 when there is no
\* assignee, and never less when final_score is raised or when files_owned or
\* areas_of_expertise goes from empty to non-empty, the other inputs fixed.
C10_ConfidenceBoundedMonotone ==
    [] ConfidenceInRange /\ [][ConfidenceStepMonotone]_vars

\* C10 witness: a saturated score (above 10) with both boosts returns exactly 1
C10_Witness ==
    /\ pc = "confidence_returned"
    /\ final_assignee # None
    /\ final_assignee.final_score > ConfidenceOne
    /\ final_assignee.files_owned # <<>>
    /\ final_assignee.areas_of_expertise # <<>>
    /\ confidence = 100

-----------------------------------------------------------------------------
(* ownership_analyzer.py: the change-event source and _get_recent_commits *)

\* status codes the source answers with: 200, or a failure (rate limit)
HttpStatuses == { 200, 403 }

\* `while page <= 10`
PageCap == 10

\* A commit held by the source: [sha, author, files], files a sequence of
\* [filename, changes].  The bulk listing shows sha and author only.
Commit(sha, author, files) == [ sha |-> sha, author |-> author, files |-> files ]

\* body of a 200 answer to the bulk request for page p
Listing(p) ==
    IF p \in 1..Len(repo_history)
    THEN [ i \in 1..Len(repo_history[p]) |->
             [ sha |-> repo_history[p][i].sha,
               author |-> repo_history[p][i].author ] ]
    ELSE <<>>

PageRequest(p, status) ==
    [ kind |-> "page", key |-> p, status |-> status,
      body |-> IF status = 200 THEN Listing(p) ELSE <<>> ]

\* state of the loop of _get_recent_commits on entry
PageLoopStart(log) ==
    [ page |-> 1, all_commits |-> <<>>, fetch_log |-> log, returned |-> FALSE ]

\* mutation: a failed page discards the pages collected so far
PageStepDiscardOnFailure(loop, status) ==
    IF loop.page > PageCap
    THEN [ loop EXCEPT !.returned = TRUE ]
    ELSE LET response == PageRequest(loop.page, status)
             logged   == Append(loop.fetch_log, response)
         IN  IF response.status # 200
             THEN [ loop EXCEPT !.fetch_log = logged, !.returned = TRUE,
                                !.all_commits = <<>> ]
             ELSE IF response.body = <<>>
             THEN [ loop EXCEPT !.fetch_log = logged, !.returned = TRUE ]
             ELSE [ loop EXCEPT !.fetch_log = logged,
                                !.all_commits = @ \o response.body,
                                !.page = @ + 1 ]

\* one evaluation of the while condition and, when it holds, one iteration:
\* the request for `page` answered with `status`
PageStep(loop, status) ==
    IF loop.page > PageCap
    THEN [ loop EXCEPT !.returned = TRUE ]
    ELSE LET response == PageRequest(loop.page, status)
             logged   == Append(loop.fetch_log, response)
         IN  IF response.status # 200
             THEN [ loop EXCEPT !.fetch_log = logged, !.returned = TRUE ]
             ELSE IF response.body = <<>>
             THEN [ loop EXCEPT !.fetch_log = logged, !.returned = TRUE ]
             ELSE [ loop EXCEPT !.fetch_log = logged,
                                !.all_commits = @ \o response.body,
                                !.page = @ + 1 ]

-----------------------------------------------------------------------------
(* Specification SpecCommits: one call of _get_recent_commits, one loop      *)
(* iteration per step                                                        *)

\* the source holds up to this many non-empty pages
MaxHistoryPages == 11

\* page i of the paged history holds the single commit with sha i
PagedHistories ==
    { [ i \in 1..n |-> << Commit(i, "alice", <<>>) >> ] : n \in 0..MaxHistoryPages }

InitCommits ==
    /\ pc = "commits_loop"
    /\ repo_history \in PagedHistories
    /\ page = 1
    /\ all_commits = <<>>
    /\ fetch_log = <<>>
    /\ bug_data = Idle /\ cache = Idle /\ ownership_data = Idle
    /\ ranked_assignees = Idle /\ final_assignee = Idle
    /\ confidence = Idle /\ result = Idle
    /\ available = Developers

CommitsLoop ==
    [ page |-> page, all_commits |-> all_commits, fetch_log |-> fetch_log,
      returned |-> FALSE ]

CommitsStep(status) ==
    LET after == PageStep(CommitsLoop, status)
    IN  /\ page' = after.page
        /\ all_commits' = after.all_commits
        /\ fetch_log' = after.fetch_log
        /\ pc' = IF after.returned THEN "commits_returned" ELSE "commits_loop"
        /\ UNCHANGED << bug_data, repo_history, available, cache,
                        ownership_data, ranked_assignees, final_assignee,
                        confidence, result >>

\* `page <= 10` holds: the page is requested and answered
RequestPage ==
    /\ pc = "commits_loop"
    /\ page <= PageCap
    /\ \E status \in HttpStatuses : CommitsStep(status)

\* `page <= 10` fails: the loop ends and all_commits is returned
ReturnCommits ==
    /\ pc = "commits_loop"
    /\ page > PageCap
    /\ CommitsStep(200)

NextCommits == RequestPage \/ ReturnCommits

SpecCommits == InitCommits /\ [][NextCommits]_vars

\* C6: pages are requested in order 1, 2, 3, ...; a page is requested only
\* after the one before it answered 200 with a non-empty body; at most 10
\* requests are made and the loop can always take its next step until it has
\* returned; it returns at the first empty page, the first non-200 answer or
\* once page 10 is fetched; the result is the concatenation, in page order, of
\* every page received (pages received before a failure are kept).
C6_PaginationProtocol ==
    pc \in { "commits_loop", "commits_returned" } =>
        LET n == Len(fetch_log)
        IN  /\ \A i \in 1..n : fetch_log[i].kind = "page" /\ fetch_log[i].key = i
            /\ \A i \in 1..(n - 1) :
                  fetch_log[i].status = 200 /\ fetch_log[i].body # <<>>
            /\ n <= 10
            /\ all_commits =
                 Flatten([ i \in 1..n |->
                            IF fetch_log[i].status = 200
                            THEN Listing(i) ELSE <<>> ])
            /\ pc = "commits_loop" => ENABLED NextCommits
            /\ pc = "commits_returned" =>
                 /\ n >= 1
                 /\ \/ fetch_log[n].status # 200
                    \/ fetch_log[n].body = <<>>
                    \/ n = 10

\* C6 witness: pages 1 and 2 were received, page 3 failed, and the call
\* returned the two pages collected before the failure
C6_Witness ==
    /\ pc = "commits_returned"
    /\ Len(fetch_log) = 3
    /\ fetch_log[3].status # 200
    /\ Len(all_commits) = 2

-----------------------------------------------------------------------------
(* Python dicts whose iteration (insertion) order the code depends on:       *)
(* [keys |-> the keys in insertion order, val |-> key -> value]              *)

EmptyFcn == [ k \in {} |-> 0 ]

EmptyDict == [ keys |-> <<>>, val |-> EmptyFcn ]

Has(d, k) == k \in DOMAIN d.val

\* d[k] = v, a new key going last
Put(d, k, v) ==
    IF Has(d, k)
    THEN [ d EXCEPT !.val[k] = v ]
    ELSE [ keys |-> Append(d.keys, k), val |-> (k :> v) @@ d.val ]

\* defaultdict(int): d[k] += n
AddCount(d, k, n) == Put(d, k, (IF Has(d, k) THEN d.val[k] ELSE 0) + n)

RemoveAt(s, i) == SubSeq(s, 1, i - 1) \o SubSeq(s, i + 1, Len(s))

\* sorted(d.items(), key=lambda x: x[1], reverse=True): pairs <<key, value>>
\* by value descending; the sort is stable, so equal values keep the order
\* of `keys` (the dict's insertion order)
RECURSIVE SortedByValueDesc(_, _)
SortedByValueDesc(keys, val) ==
    IF keys = <<>> THEN <<>>
    ELSE LET first == CHOOSE i \in 1..Len(keys) :
                        /\ \A j \in 1..Len(keys) : val[keys[j]] <= val[keys[i]]
                        /\ \A j \in 1..(i - 1) : val[keys[j]] < val[keys[i]]
         IN  << << keys[first], val[keys[first]] >> >>
                \o SortedByValueDesc(RemoveAt(keys, first), val)

SumOf(d) ==
    LET RECURSIVE Sum(_)
        Sum(ks) == IF ks = <<>> THEN 0 ELSE d.val[Head(ks)] + Sum(Tail(ks))
    IN  Sum(d.keys)

-----------------------------------------------------------------------------
(* ownership_analyzer.py: fetches of one commit and of a file's last change *)

\* the answer the source gives to a request, by the failure pattern of the call
\* failing = [page, commit, path |-> the keys whose request is refused]
StatusOf(kind, key, failing) == IF key \in failing[kind] THEN 403 ELSE 200

ServerCommits == Flatten(repo_history)

\* body of a 200 answer to the request for one commit
CommitData(sha) ==
    LET c == CHOOSE c \in Range(ServerCommits) : c.sha = sha
    IN  [ files |-> c.files ]

\* a _get_commit_details that also stores the empty record of a refused fetch
CommitDetailsStoreFailures(commit_sha, cache_, status) ==
    IF commit_sha \in DOMAIN cache_
    THEN [ data |-> cache_[commit_sha], cache |-> cache_, requests |-> <<>> ]
    ELSE LET body == IF status = 200 THEN CommitData(commit_sha) ELSE EmptyFcn
         IN  [ data |-> body,
               cache |-> (commit_sha :> body) @@ cache_,
               requests |-> << [ kind |-> "commit", key |-> commit_sha,
                                 status |-> status, body |-> body ] >> ]

\* a _get_commit_details whose cache hit returns an empty record
CommitDetailsLostOnHit(commit_sha, cache_, status) ==
    IF commit_sha \in DOMAIN cache_
    THEN [ data |-> EmptyFcn, cache |-> cache_, requests |-> <<>> ]
    ELSE IF status = 200
         THEN [ data |-> CommitData(commit_sha),
                cache |-> (commit_sha :> CommitData(commit_sha)) @@ cache_,
                requests |-> << [ kind |-> "commit", key |-> commit_sha,
                                  status |-> status,
                                  body |-> CommitData(commit_sha) ] >> ]
         ELSE [ data |-> EmptyFcn, cache |-> cache_,
                requests |-> << [ kind |-> "commit", key |-> commit_sha,
                                  status |-> status, body |-> EmptyFcn ] >> ]

\* _get_commit_details: [data, cache, requests]
_get_commit_details(commit_sha, cache_, status) ==
    IF commit_sha \in DOMAIN cache_
    THEN [ data |-> cache_[commit_sha], cache |-> cache_, requests |-> <<>> ]
    ELSE LET request == [ kind |-> "commit", key |-> commit_sha,
                          status |-> status,
                          body |-> IF status = 200 THEN CommitData(commit_sha)
                                   ELSE EmptyFcn ]
         IN  IF status = 200
             THEN [ data |-> request.body,
                    cache |-> (commit_sha :> request.body) @@ cache_,
                    requests |-> << request >> ]
             ELSE [ data |-> EmptyFcn, cache |-> cache_,
                    requests |-> << request >> ]

\* _get_file_last_modified: the date of the newest commit touching the path
\* ("source"; every path asked for was changed by a listed commit), or
\* datetime.now() ("now") when the request fails or lists nothing
_get_file_last_modified(file_path, status) ==
    LET commits == IF status = 200 THEN << [ date |-> "source" ] >> ELSE <<>>
    IN  [ value |-> IF status = 200 /\ commits # <<>>
                    THEN commits[1].date ELSE "now",
          requests |-> << [ kind |-> "path", key |-> file_path,
                            status |-> status, body |-> commits ] >> ]

-----------------------------------------------------------------------------
(* ownership_analyzer.py: complexity score (thousandths) *)

\* 0.7 * min(total / 100, 1.0) = 7 * min(total, 100) thousandths
ChangeSaturation == 100
ChangeWeight == 7
\* 0.3 * min(contributors / 5, 1.0) = 60 * min(contributors, 5) thousandths
ContributorSaturation == 5
ContributorWeight == 60

_calculate_complexity_score(complexity_data) ==
    ChangeWeight * Min(complexity_data.total_changes, ChangeSaturation)
    + ContributorWeight
        * Min(Cardinality(complexity_data.unique_contributors),
              ContributorSaturation)

-----------------------------------------------------------------------------
(* File paths.  Paths are atomic strings here; the two string expressions the *)
(* code applies to a path are tabulated on the paths of the model.            *)

Files == { "src/auth/login.py", "api/routes.py", "go", "docs/v1.2/notes" }

\* '/'.join(file_path.split('/')[:-1])
Directory(file_path) ==
    CASE file_path = "src/auth/login.py" -> "src/auth"
      [] file_path = "api/routes.py"     -> "api"
      [] file_path = "go"                -> ""
      [] file_path = "docs/v1.2/notes"   -> "docs/v1.2"

\* f"*.{file_path.split('.')[-1] if '.' in file_path else 'unknown'}"
ExtensionKey(file_path) ==
    CASE file_path = "src/auth/login.py" -> "*.py"
      [] file_path = "api/routes.py"     -> "*.py"
      [] file_path = "go"                -> "*.unknown"
      [] file_path = "docs/v1.2/notes"   -> "*.2/notes"

-----------------------------------------------------------------------------
(* ownership_analyzer.py: analyze_repository_ownership *)

\* `sorted_contributors[1:3]`, and the `[:3]` of _identify_experts
SecondaryEnd == 3
TopExperts == 3

\* lines 53-69: one file_info of a commit by `author`
CreditFile(acc, author, file_info) ==
    LET file_path == file_info.filename
        changes   == file_info.changes
        perFile   == IF Has(acc.file_ownership, file_path)
                     THEN acc.file_ownership.val[file_path] ELSE EmptyDict
        cx        == IF file_path \in DOMAIN acc.file_complexity
                     THEN acc.file_complexity[file_path]
                     ELSE [ total_changes |-> 0, unique_contributors |-> {} ]
    IN  [ acc EXCEPT
            !.file_ownership = Put(@, file_path, AddCount(perFile, author, changes)),
            !.developer_activity = AddCount(@, author, changes),
            !.file_complexity =
                (file_path :>
                    [ total_changes |-> cx.total_changes + changes,
                      unique_contributors |-> cx.unique_contributors \cup { author } ])
                @@ @ ]

RECURSIVE CreditFiles(_, _, _)
CreditFiles(acc, author, file_infos) ==
    IF file_infos = <<>> THEN acc
    ELSE CreditFiles(CreditFile(acc, author, Head(file_infos)), author,
                     Tail(file_infos))

\* lines 48-69: `for commit in commits`
RECURSIVE ProcessCommits(_, _, _)
ProcessCommits(acc, commits, failing) ==
    IF commits = <<>> THEN acc
    ELSE LET commit == Head(commits)
             got    == _get_commit_details(commit.sha, acc.cache,
                                           StatusOf("commit", commit.sha, failing))
             files  == IF "files" \in DOMAIN got.data THEN got.data.files ELSE <<>>
             acc1   == [ acc EXCEPT !.cache = got.cache,
                                    !.fetch_log = @ \o got.requests ]
         IN  ProcessCommits(CreditFiles(acc1, commit.author, files),
                            Tail(commits), failing)

\* lines 73-87: `for file_path, contributors in file_ownership.items()`
RECURSIVE BuildOwnershipMap(_, _, _)
BuildOwnershipMap(acc, file_paths, failing) ==
    IF file_paths = <<>> THEN acc
    ELSE LET file_path    == Head(file_paths)
             contributors == acc.file_ownership.val[file_path]
             sorted_contributors ==
                 SortedByValueDesc(contributors.keys, contributors.val)
             secondary    == Slice(sorted_contributors, 1, SecondaryEnd)
             modified     == _get_file_last_modified(
                                 file_path, StatusOf("path", file_path, failing))
             record ==
                 [ file_path         |-> file_path,
                   primary_owner     |-> IF sorted_contributors # <<>>
                                         THEN sorted_contributors[1][1] ELSE NoneStr,
                   secondary_owners  |-> [ i \in 1..Len(secondary) |-> secondary[i][1] ],
                   last_modified     |-> modified.value,
                   modification_count |-> SumOf(contributors),
                   complexity_score  |->
                       _calculate_complexity_score(acc.file_complexity[file_path]) ]
         IN  BuildOwnershipMap(
                 [ acc EXCEPT !.ownership_map = (file_path :> record) @@ @,
                              !.fetch_log = @ \o modified.requests ],
                 Tail(file_paths), failing)

\* lines 165-171: credit every contributor of every file to the file's
\* directory key and to its extension key
RECURSIVE CreditDomains(_, _, _, _)
CreditDomains(experts, file_path, contributors, ownership) ==
    IF contributors = <<>> THEN experts
    ELSE LET contributor == Head(contributors)
             changes     == ownership.val[contributor]
             AddTo(e, domain) ==
                 Put(e, domain,
                     AddCount(IF Has(e, domain) THEN e.val[domain] ELSE EmptyDict,
                              contributor, changes))
         IN  CreditDomains(
                 AddTo(AddTo(experts, Directory(file_path)), ExtensionKey(file_path)),
                 file_path, Tail(contributors), ownership)

RECURSIVE CreditAllFiles(_, _, _)
CreditAllFiles(experts, file_paths, file_ownership) ==
    IF file_paths = <<>> THEN experts
    ELSE LET ownership == file_ownership.val[Head(file_paths)]
         IN  CreditAllFiles(
                 CreditDomains(experts, Head(file_paths), ownership.keys, ownership),
                 Tail(file_paths), file_ownership)

\* _identify_experts: domain key -> top 3 <<contributor, changes>> pairs
_identify_experts(developer_activity, file_ownership) ==
    LET experts == CreditAllFiles(EmptyDict, file_ownership.keys, file_ownership)
    IN  [ domain \in DOMAIN experts.val |->
            Slice(SortedByValueDesc(experts.val[domain].keys,
                                    experts.val[domain].val), 0, TopExperts) ]

\* analyze_repository_ownership, the source answering by `failing`:
\* [ownership_data, cache, fetch_log, all_commits]
analyze_repository_ownership(cache_, log, failing) ==
    LET RECURSIVE RunPageLoop(_)
        RunPageLoop(loop) ==
            IF loop.returned THEN loop
            ELSE RunPageLoop(PageStep(loop, StatusOf("page", loop.page, failing)))
        listed == RunPageLoop(PageLoopStart(log))
        counted == ProcessCommits(
                       [ cache |-> cache_, fetch_log |-> listed.fetch_log,
                         file_ownership |-> EmptyDict,
                         developer_activity |-> EmptyDict,
                         file_complexity |-> EmptyFcn,
                         ownership_map |-> EmptyFcn ],
                       listed.all_commits, failing)
        built == BuildOwnershipMap(counted, counted.file_ownership.keys, failing)
    IN  [ ownership_data |->
            [ file_ownership     |-> built.ownership_map,
              developer_activity |-> built.developer_activity.val,
              repository_experts |->
                  _identify_experts(built.developer_activity, built.file_ownership) ],
          cache       |-> built.cache,
          fetch_log   |-> built.fetch_log,
          all_commits |-> listed.all_commits ]

-----------------------------------------------------------------------------
(* Specification SpecAnalyze: one call of analyze_repository_ownership on a  *)
(* fresh analyzer (empty cache), the source refusing any set of requests     *)

\* number of commits within the lookback window
MaxCommits == 3

\* requests the source refuses during one analysis
MaxRefused == 1

\* lines changed by one commit in one file
CommitChanges == 10

\* the n-th commit of a history has sha n; histories fit on the first page
HistoryOf(kinds) ==
    IF kinds = <<>> THEN <<>>
    ELSE << [ i \in 1..Len(kinds) |->
                Commit(i, kinds[i][1],
                       << [ filename |-> kinds[i][2], changes |-> kinds[i][3] ] >>) ] >>

AnalyzeHistories ==
    { HistoryOf(k) :
        k \in SeqsUpTo(Developers \X { "src/auth/login.py", "api/routes.py",
                                      "docs/v1.2/notes" }
                                  \X { CommitChanges }, MaxCommits) }

\* every way the source may refuse requests for the history it holds:
\* pages (the page after the last included), commits, paths
AllFailurePatterns ==
    [ page   : SUBSET (1..(Len(repo_history) + 1)),
      commit : SUBSET { c.sha : c \in Range(ServerCommits) },
      path   : SUBSET { c.files[i].filename :
                          c \in Range(ServerCommits), i \in 1..1 } ]

Refused(failing) ==
    Cardinality(failing.page) + Cardinality(failing.commit)
    + Cardinality(failing.path)

FailurePatterns == { f \in AllFailurePatterns : Refused(f) <= MaxRefused }

InitAnalyze ==
    /\ pc = "analyze_call"
    /\ repo_history \in AnalyzeHistories
    /\ cache = EmptyFcn
    /\ fetch_log = <<>>
    /\ all_commits = <<>>
    /\ ownership_data = None
    /\ page = Idle /\ bug_data = Idle /\ ranked_assignees = Idle
    /\ final_assignee = Idle /\ confidence = Idle /\ result = Idle
    /\ available = Developers

AnalyzeRepositoryOwnership ==
    /\ pc = "analyze_call"
    /\ \E failing \in FailurePatterns :
         LET run == analyze_repository_ownership(cache, fetch_log, failing)
         IN  /\ ownership_data' = run.ownership_data
             /\ cache' = run.cache
             /\ fetch_log' = run.fetch_log
             /\ all_commits' = run.all_commits
    /\ pc' = "analyze_returned"
    /\ UNCHANGED << bug_data, repo_history, available, page, ranked_assignees,
                    final_assignee, confidence, result >>

NextAnalyze == AnalyzeRepositoryOwnership

SpecAnalyze == InitAnalyze /\ [][NextAnalyze]_vars

\* position of an identity string in lexicographic order
LexRank(identity) ==
    CASE identity = "alice" -> 1
      [] identity = "bob"   -> 2
      [] identity = "carol" -> 3
      [] identity = "dave"  -> 4

\* lines of file_path credited to identity by the analysis: the changes of the
\* listed commits whose details were received
Accumulated(file_path, identity) ==
    LET counted == { i \in 1..Len(all_commits) :
                       /\ all_commits[i].author = identity
                       /\ all_commits[i].sha \in DOMAIN cache }
        InFile(sha) ==
            LET fs == cache[sha].files
                RECURSIVE Sum(_)
                Sum(k) == IF k = 0 THEN 0
                          ELSE (IF fs[k].filename = file_path
                                THEN fs[k].changes ELSE 0) + Sum(k - 1)
            IN  Sum(Len(fs))
        RECURSIVE Total(_)
        Total(S) == IF S = {} THEN 0
                    ELSE LET i == CHOOSE i \in S : TRUE
                         IN  InFile(all_commits[i].sha) + Total(S \ { i })
    IN  Total(counted)

ContributorsOf(file_path) ==
    { all_commits[i].author :
        i \in { j \in 1..Len(all_commits) :
                  /\ all_commits[j].sha \in DOMAIN cache
                  /\ \E k \in 1..Len(cache[all_commits[j].sha].files) :
                        cache[all_commits[j].sha].files[k].filename = file_path } }

\* 1-based place of identity among the contributors of file_path, by
\* accumulated changes descending, then identity ascending
PlaceOf(file_path, identity) ==
    1 + Cardinality({ other \in ContributorsOf(file_path) :
          \/ Accumulated(file_path, other) > Accumulated(file_path, identity)
          \/ /\ Accumulated(file_path, other) = Accumulated(file_path, identity)
             /\ LexRank(other) < LexRank(identity) })

\* C3: in every file's record primary_owner is the contributor with maximal
\* accumulated changes, the lexicographically first one among those tied at
\* the maximum; secondary_owners are the next up to 2 contributors by changes
\* descending, ties by identity ascending, without primary_owner, without
\* duplicates and at most 2 long, whatever order the events arrive in.
C3_PerFileOwnership ==
    pc = "analyze_returned" =>
        \A file_path \in DOMAIN ownership_data.file_ownership :
            LET record == ownership_data.file_ownership[file_path]
                second == record.secondary_owners
            IN  /\ record.primary_owner \in ContributorsOf(file_path)
                /\ PlaceOf(file_path, record.primary_owner) = 1
                /\ Len(second) = Min(2, Cardinality(ContributorsOf(file_path)) - 1)
                /\ \A i \in 1..Len(second) :
                      /\ second[i] \in ContributorsOf(file_path)
                      /\ PlaceOf(file_path, second[i]) = i + 1
                /\ record.primary_owner \notin Range(second)
                /\ Cardinality(Range(second)) = Len(second)

\* the extension key a path is filed under when the extension is what
\* follows the last dot of the file name: "*.unknown" for a name without dot
NamedExtensionKey(file_path) ==
    CASE file_path = "src/auth/login.py" -> "*.py"
      [] file_path = "api/routes.py"     -> "*.py"
      [] file_path = "go"                -> "*.unknown"
      [] file_path = "docs/v1.2/notes"   -> "*.unknown"

\* lines credited to identity under a domain key: its accumulated changes in
\* the files with ownership data filed under that key
DomainChanges(domain, identity) ==
    LET filed == { f \in DOMAIN ownership_data.file_ownership :
                     domain \in { Directory(f), NamedExtensionKey(f) } }
        RECURSIVE Total(_)
        Total(S) == IF S = {} THEN 0
                    ELSE LET f == CHOOSE f \in S : TRUE
                         IN  Accumulated(f, identity) + Total(S \ { f })
    IN  Total(filed)

DomainContributors(domain) ==
    UNION { ContributorsOf(f) :
              f \in { g \in DOMAIN ownership_data.file_ownership :
                        domain \in { Directory(g), NamedExtensionKey(g) } } }

\* 1-based place of identity among the contributors of a domain key, by
\* cumulative changes descending, then identity ascending
DomainPlaceOf(domain, identity) ==
    1 + Cardinality({ other \in DomainContributors(domain) :
          \/ DomainChanges(domain, other) > DomainChanges(domain, identity)
          \/ /\ DomainChanges(domain, other) = DomainChanges(domain, identity)
             /\ LexRank(other) < LexRank(identity) })

\* C11: repository_experts holds exactly the parent-directory key and the
\* extension key ("*.unknown" without extension) of every file with ownership
\* data; each key lists at most 3 <<identity, cumulative changes>> pairs, the
\* contributors with the highest cumulative changes under the key, descending,
\* ties by identity ascending, whatever order the events arrive in.
C11_DomainExpertiseTable ==
    pc = "analyze_returned" =>
        LET experts == ownership_data.repository_experts
            files   == DOMAIN ownership_data.file_ownership
        IN  /\ DOMAIN experts =
                 { Directory(f) : f \in files } \cup { NamedExtensionKey(f) : f \in files }
            /\ \A domain \in DOMAIN experts :
                 /\ Len(experts[domain]) =
                      Min(3, Cardinality(DomainContributors(domain)))
                 /\ \A i \in 1..Len(experts[domain]) :
                      /\ experts[domain][i][1] \in DomainContributors(domain)
                      /\ experts[domain][i][2] =
                           DomainChanges(domain, experts[domain][i][1])
                      /\ DomainPlaceOf(domain, experts[domain][i][1]) = i

-----------------------------------------------------------------------------
(* Specification SpecReanalyze: two calls of analyze_repository_ownership on *)
(* one analyzer over one history; the second call starts from the cache the  *)
(* first call filled, and the source may refuse requests in either call      *)

\* number of commits within the lookback window
MaxReanalyzeCommits == 2

ReanalyzeHistories ==
    { HistoryOf(k) :
        k \in SeqsUpTo({ "alice", "bob" }
                         \X { "src/auth/login.py", "api/routes.py" }
                         \X { CommitChanges }, MaxReanalyzeCommits) }

InitReanalyze ==
    /\ pc = "analyze_call"
    /\ repo_history \in ReanalyzeHistories
    /\ cache = EmptyFcn
    /\ fetch_log = <<>>
    /\ all_commits = <<>>
    /\ ownership_data = None
    /\ page = Idle /\ bug_data = Idle /\ ranked_assignees = Idle
    /\ final_assignee = Idle /\ confidence = Idle /\ result = Idle
    /\ available = Developers

\* the second call: self.cache and the source are those the first call left
AnalyzeAgain ==
    /\ pc = "analyze_returned"
    /\ \E failing \in FailurePatterns :
         LET run == analyze_repository_ownership(cache, fetch_log, failing)
         IN  /\ ownership_data' = run.ownership_data
             /\ cache' = run.cache
             /\ fetch_log' = run.fetch_log
             /\ all_commits' = run.all_commits
    /\ pc' = "reanalyze_returned"
    /\ UNCHANGED << bug_data, repo_history, available, page, ranked_assignees,
                    final_assignee, confidence, result >>

NextReanalyze == AnalyzeRepositoryOwnership \/ AnalyzeAgain

SpecReanalyze == InitReanalyze /\ [][NextReanalyze]_vars

\* an ownership model without the last_modified of its file records
WithoutLastModified(model) ==
    [ file_ownership |->
          [ f \in DOMAIN model.file_ownership |->
              [ primary_owner      |-> model.file_ownership[f].primary_owner,
                secondary_owners   |-> model.file_ownership[f].secondary_owners,
                modification_count |-> model.file_ownership[f].modification_count,
                complexity_score   |-> model.file_ownership[f].complexity_score ] ],
      developer_activity |-> model.developer_activity,
      repository_experts |-> model.repository_experts ]

\* the step from the return of the first call to the return of the second
SecondRunStep == pc = "analyze_returned" /\ pc' = "reanalyze_returned"

\* every request of the second call was answered with the status the same
\* request got in the first call
SameAnswers ==
    \A i \in (Len(fetch_log) + 1)..Len(fetch_log') :
        \A j \in 1..Len(fetch_log) :
            (fetch_log[j].kind = fetch_log'[i].kind
               /\ fetch_log[j].key = fetch_log'[i].key)
              => fetch_log[j].status = fetch_log'[i].status

\* C12 as stated: a second analysis of the same history on the same analyzer
\* returns the model the first returned, last_modified apart.
C12_AnalyzerIdempotent ==
    [][ SecondRunStep =>
          WithoutLastModified(ownership_data') = WithoutLastModified(ownership_data)
      ]_vars

\* C12 amended: a second analysis of the same history on the same analyzer,
\* whose requests are answered as the first call's were, returns the model the
\* first returned, last_modified apart.
C12_IdempotentUnderSameAnswers ==
    [][ (SecondRunStep /\ SameAnswers) =>
          WithoutLastModified(ownership_data') = WithoutLastModified(ownership_data)
      ]_vars

\* both calls returned a model with ownership records, a request was refused,
\* the second call got the same answers and took commit details from the cache
C12_Witness ==
    /\ pc = "reanalyze_returned"
    /\ DOMAIN ownership_data.file_ownership # {}
    /\ LET commitRequests == SelectSeq(fetch_log, LAMBDA r : r.kind = "commit")
           refusedCommits == SelectSeq(commitRequests, LAMBDA r : r.status # 200)
       IN  /\ Len(all_commits) = MaxReanalyzeCommits
           /\ Len(commitRequests) = Len(all_commits) + 1
           /\ Len(refusedCommits) = 2

-----------------------------------------------------------------------------
(* Specification SpecCache: any sequence of _get_commit_details calls on one *)
(* analyzer, for any commit of the source, the source answering 200 or 403   *)
(* to each fetch; between calls the source may come to hold other details    *)
(* for the same commit identifiers                                           *)

\* commit identifiers the calls ask for
MaxCacheCommits == 2

\* fetches issued over the life of the analyzer
MaxCacheFetches == 3

CacheHistories ==
    { h \in { HistoryOf(k) :
                k \in SeqsUpTo({ "alice" }
                                 \X { "src/auth/login.py", "api/routes.py" }
                                 \X { CommitChanges }, MaxCacheCommits) } :
        h # <<>> /\ Len(h[1]) = MaxCacheCommits }

\* __init__, line 34: self.cache = {}
InitCache ==
    /\ pc = "cache_ready"
    /\ repo_history \in CacheHistories
    /\ cache = EmptyFcn
    /\ fetch_log = <<>>
    /\ result = None
    /\ page = Idle /\ bug_data = Idle /\ ranked_assignees = Idle
    /\ final_assignee = Idle /\ confidence = Idle /\ all_commits = Idle
    /\ ownership_data = Idle
    /\ available = Developers

\* one call _get_commit_details(repo_name, commit_sha)
GetCommitDetails ==
    /\ pc = "cache_ready"
    /\ \E commit_sha \in 1..MaxCacheCommits, status \in HttpStatuses :
         LET got == _get_commit_details(commit_sha, cache, status)
         IN  /\ Len(fetch_log) + Len(got.requests) <= MaxCacheFetches
             /\ cache' = got.cache
             /\ fetch_log' = fetch_log \o got.requests
             /\ result' = [ commit_sha |-> commit_sha, data |-> got.data,
                            fetches |-> Len(got.requests) ]
    /\ UNCHANGED << pc, bug_data, repo_history, available, page, all_commits,
                    ownership_data, ranked_assignees, final_assignee,
                    confidence >>

\* the source comes to answer with other details for its commit identifiers
SourceChanges ==
    /\ pc = "cache_ready"
    /\ repo_history' \in CacheHistories \ { repo_history }
    /\ UNCHANGED << pc, bug_data, available, cache, fetch_log, page,
                    all_commits, ownership_data, ranked_assignees,
                    final_assignee, confidence, result >>

NextCache == GetCommitDetails \/ SourceChanges

SpecCache == InitCache /\ [][NextCache]_vars

\* a step that is a _get_commit_details call (the source is left as it was)
CacheCallStep == pc = "cache_ready" /\ repo_history' = repo_history /\ result' # None

\* what C13 requires of one call
CacheCallContract ==
    LET commit_sha == result'.commit_sha
        issued     == SubSeq(fetch_log', Len(fetch_log) + 1, Len(fetch_log'))
    IN  /\ result'.fetches = Len(issued)
        /\ SubSeq(fetch_log', 1, Len(fetch_log)) = fetch_log
        /\ \A k \in DOMAIN cache : k \in DOMAIN cache' /\ cache'[k] = cache[k]
        /\ IF commit_sha \in DOMAIN cache
           THEN /\ issued = <<>>
                /\ result'.data = cache[commit_sha]
                /\ cache' = cache
           ELSE /\ Len(issued) = 1
                /\ issued[1].kind = "commit" /\ issued[1].key = commit_sha
                /\ IF issued[1].status = 200
                   THEN /\ DOMAIN cache' = DOMAIN cache \cup { commit_sha }
                        /\ cache'[commit_sha] = issued[1].body
                        /\ result'.data = issued[1].body
                   ELSE /\ cache' = cache
                        /\ result'.data = EmptyFcn

\* C13: over any sequence of _get_commit_details calls an entry is added only
\* on a 200 answer, a refused fetch leaves the cache unchanged and returns an
\* empty record, an entry is never overwritten or removed, and a call for a
\* cached identifier issues no fetch and returns the stored record.
C13_CacheReadThroughWriteOnce ==
    [][ (CacheCallStep => CacheCallContract)
        /\ (\A k \in DOMAIN cache : k \in DOMAIN cache' /\ cache'[k] = cache[k])
      ]_vars

\* a call was answered from the cache with a record the source no longer
\* holds, after a refused fetch that stored nothing
C13_Witness ==
    /\ pc = "cache_ready"
    /\ result # None
    /\ result.commit_sha \in DOMAIN cache
    /\ result.fetches = 0
    /\ result.data = cache[result.commit_sha]
    /\ result.data # CommitData(result.commit_sha)
    /\ \E i \in 1..Len(fetch_log) :
          /\ fetch_log[i].status # 200
          /\ fetch_log[i].key \notin DOMAIN cache
    /\ Len(SelectSeq(fetch_log, LAMBDA r : r.key = result.commit_sha)) = 1

-----------------------------------------------------------------------------
(* intelligent_router.py: bug report text.  A text is a sequence of          *)
(* space-separated tokens (no pattern or keyword of the code contains a      *)
(* space, so no match spans two tokens); the string functions the code       *)
(* applies are tabulated on the tokens of the model.                         *)

Tokens == { "crash", "login", "src/auth/login.py", "api/routes.py",
            "cmd/main.go", "TypeError" }

\* re.findall(file_pattern, token): the pattern has one capturing group, the
\* extension, so findall yields the group, not the matched path
FilePatternFindall(token) ==
    CASE token = "src/auth/login.py" -> << "py" >>
      [] token = "api/routes.py"     -> << "py" >>
      [] token = "cmd/main.go"       -> << "go" >>
      [] OTHER                       -> <<>>

\* re.findall(r'(\w*Error|\w*Exception)', token)
ErrorPatternFindall(token) ==
    IF token = "TypeError" THEN << "TypeError" >> ELSE <<>>

\* area_keywords, in dict order
AreaOrder == << "authentication", "database", "api", "frontend", "backend",
                "security", "performance" >>

\* the areas one of whose keywords is a substring of token.lower()
AreasOfToken(token) ==
    CASE token = "login"             -> { "authentication" }   \* 'login'
      [] token = "src/auth/login.py" -> { "authentication" }   \* 'auth', 'login'
      [] token = "api/routes.py"     -> { "api" }              \* 'api'
      [] OTHER                       -> {}

\* re.findall(file_pattern, text) over the tokens of a text
RECURSIVE FindallFiles(_)
FindallFiles(tokens) ==
    IF tokens = <<>> THEN <<>>
    ELSE FilePatternFindall(Head(tokens)) \o FindallFiles(Tail(tokens))

\* re.findall(error_pattern, text) over the tokens of a text
RECURSIVE FindallErrors(_)
FindallErrors(tokens) ==
    IF tokens = <<>> THEN <<>>
    ELSE ErrorPatternFindall(Head(tokens)) \o FindallErrors(Tail(tokens))

Raised(exception, name) == [ raised |-> exception, name |-> name ]

IsRaised(value) == "raised" \in DOMAIN value

\* a call that returned normally, where the value is not itself a record
Returned(value) == [ returned |-> value ]

\* _extract_bug_context: the context, or the KeyError of a missing key.
\* (mentioned_functions, mentioned_modules and keywords are read by no code.)
_extract_bug_context(bug) ==
    IF "title" \notin DOMAIN bug THEN Raised("KeyError", "title")
    ELSE IF "description" \notin DOMAIN bug THEN Raised("KeyError", "description")
    ELSE LET text == bug.title \o bug.description
             stack_files ==
                 IF "stack_trace" \in DOMAIN bug /\ bug.stack_trace # <<>>
                 THEN FindallFiles(bug.stack_trace)
                 ELSE <<>>
             matched == UNION { AreasOfToken(text[i]) : i \in 1..Len(text) }
             IsMatched(area) == area \in matched
         IN  [ mentioned_files |->
                   FindallFiles(text) \o stack_files,
               error_types     |-> FindallErrors(text),
               affected_areas  |-> SelectSeq(AreaOrder, IsMatched) ]

-----------------------------------------------------------------------------
(* intelligent_router.py: candidate discovery *)

\* names bound in the namespace of intelligent_router.py (its imports, lines
\* 2-6, and its class); a use of any other name raises NameError
RouterGlobals ==
    { "Dict", "List", "Optional", "Tuple", "datetime", "timedelta",
      "CodeOwnershipAnalyzer", "Developer", "re", "json",
      "IntelligentBugRouter" }

\* complexity_score * 3, complexity_score * 1, score * 0.5 (thousandths)
PrimaryWeight == 3
SecondaryWeight == 1
ExpertiseWeight == 500

\* `repository_experts[area][:3]`
ExpertsPerArea == 3

NewCandidate ==
    [ ownership_score |-> 0, expertise_score |-> 0,
      files_owned |-> <<>>, areas_of_expertise |-> <<>> ]

Entry(candidates, developer) ==
    IF Has(candidates, developer) THEN candidates.val[developer] ELSE NewCandidate

CreditOwnership(candidates, developer, score, file_path) ==
    Put(candidates, developer,
        [ Entry(candidates, developer) EXCEPT
            !.ownership_score = @ + score,
            !.files_owned = Append(@, file_path) ])

RECURSIVE CreditSecondaries(_, _, _)
CreditSecondaries(candidates, secondaries, ownership) ==
    IF secondaries = <<>> THEN candidates
    ELSE CreditSecondaries(
             CreditOwnership(candidates, Head(secondaries),
                             ownership.complexity_score * SecondaryWeight,
                             ownership.file_path),
             Tail(secondaries), ownership)

\* lines 134-145: `for file_path in relevant_files`
RECURSIVE ScoreFiles(_, _, _)
ScoreFiles(candidates, relevant_files, file_ownership) ==
    IF relevant_files = <<>> THEN candidates
    ELSE LET file_path == Head(relevant_files)
         IN  IF file_path \in DOMAIN file_ownership
             THEN LET ownership == file_ownership[file_path]
                      primary   == ownership.primary_owner
                      credited  == IF primary # NoneStr
                                   THEN CreditOwnership(
                                            candidates, primary,
                                            ownership.complexity_score * PrimaryWeight,
                                            file_path)
                                   ELSE candidates
                  IN  ScoreFiles(
                          CreditSecondaries(credited, ownership.secondary_owners,
                                            ownership),
                          Tail(relevant_files), file_ownership)
             ELSE ScoreFiles(candidates, Tail(relevant_files), file_ownership)

RECURSIVE CreditExperts(_, _, _)
CreditExperts(candidates, experts, area) ==
    IF experts = <<>> THEN candidates
    ELSE LET expert == Head(experts)[1]
             score  == Head(experts)[2]
         IN  CreditExperts(
                 Put(candidates, expert,
                     [ Entry(candidates, expert) EXCEPT
                         !.expertise_score = @ + score * ExpertiseWeight,
                         !.areas_of_expertise = Append(@, area) ]),
                 Tail(experts), area)

\* lines 148-152: `for area in context['affected_areas']`
RECURSIVE ScoreAreas(_, _, _)
ScoreAreas(candidates, areas, repository_experts) ==
    IF areas = <<>> THEN candidates
    ELSE IF Head(areas) \in DOMAIN repository_experts
         THEN ScoreAreas(
                  CreditExperts(candidates,
                                Slice(repository_experts[Head(areas)], 0, ExpertsPerArea),
                                Head(areas)),
                  Tail(areas), repository_experts)
         ELSE ScoreAreas(candidates, Tail(areas), repository_experts)

\* _find_potential_assignees: Returned(the candidate list), or the NameError
\* raised by line 121, which uses defaultdict
_find_potential_assignees(context, ownership, affected_files) ==
    IF "defaultdict" \notin RouterGlobals THEN Raised("NameError", "defaultdict")
    ELSE LET relevant_files == affected_files \o context.mentioned_files
             byFile == ScoreFiles(EmptyDict, relevant_files, ownership.file_ownership)
             candidates == ScoreAreas(byFile, context.affected_areas,
                                      ownership.repository_experts)
             HasSignal(developer) ==
                 \/ candidates.val[developer].ownership_score > 0
                 \/ candidates.val[developer].expertise_score > 0
             kept == SelectSeq(candidates.keys, HasSignal)
         IN  Returned(
               [ i \in 1..Len(kept) |->
                 LET scores == candidates.val[kept[i]]
                 IN  [ developer          |-> kept[i],
                       total_score        |-> scores.ownership_score
                                              + scores.expertise_score,
                       ownership_score    |-> scores.ownership_score,
                       expertise_score    |-> scores.expertise_score,
                       files_owned        |-> scores.files_owned,
                       areas_of_expertise |-> scores.areas_of_expertise ] ])

-----------------------------------------------------------------------------
(* intelligent_router.py: ranking *)

\* priority_multipliers, in tenths
PriorityMultiplier(bug) ==
    LET priority == IF "priority" \in DOMAIN bug THEN bug.priority ELSE "medium"
    IN  CASE priority = "critical" -> 15
          [] priority = "high"     -> 12
          [] priority = "medium"   -> 10
          [] priority = "low"      -> 8
          [] OTHER                 -> 10

\* _rank_assignees: final_score (units of 1e-4) added, stable sort descending
_rank_assignees(potential_assignees, bug) ==
    LET scored == [ i \in 1..Len(potential_assignees) |->
                      [ k \in DOMAIN potential_assignees[i] \cup { "final_score" } |->
                          IF k = "final_score"
                          THEN potential_assignees[i].total_score
                               * PriorityMultiplier(bug)
                          ELSE potential_assignees[i][k] ] ]
        order  == SortedByValueDesc(
                      [ i \in 1..Len(scored) |-> i ],
                      [ i \in 1..Len(scored) |-> scored[i].final_score ])
    IN  [ i \in 1..Len(order) |-> scored[order[i][1]] ]

-----------------------------------------------------------------------------
(* intelligent_router.py: reason, labels, complexity, and route_bug_report *)

\* `ranked_assignees[1:3]`
BackupEnd == 3

\* `ownership_score > 5`, in thousandths
HighOwnership == 5000

\* _generate_routing_reason: the clauses joined by "; ", as tags
_generate_routing_reason(assignee) ==
    IF assignee = None THEN << "no_clear_owner" >>
    ELSE LET reasons ==
                 (IF assignee.files_owned # <<>>
                  THEN << "primary_owner_of_files" >> ELSE <<>>)
                 \o (IF assignee.areas_of_expertise # <<>>
                     THEN << "subject_matter_expert" >> ELSE <<>>)
                 \o (IF assignee.ownership_score > HighOwnership
                     THEN << "high_ownership_score" >> ELSE <<>>)
         IN  IF reasons # <<>> THEN reasons ELSE << "best_available_match" >>

\* _suggest_labels: f"area:{area}" as <<"area", area>>
_suggest_labels(context) ==
    [ i \in 1..Len(context.affected_areas) |-> << "area", context.affected_areas[i] >> ]
    \o (IF context.error_types # <<>> THEN << << "bug", "error" >> >> ELSE <<>>)

\* _estimate_complexity; the score in tenths: 0.5, 1 and 0.3 per item,
\* thresholds 1, 3 and 5
FileComplexityWeight == 5
AreaComplexityWeight == 10
ErrorComplexityWeight == 3
LowBelow == 10
MediumBelow == 30
HighBelow == 50

_estimate_complexity(context) ==
    LET complexity_score ==
            Len(context.mentioned_files) * FileComplexityWeight
            + Len(context.affected_areas) * AreaComplexityWeight
            + Len(context.error_types) * ErrorComplexityWeight
    IN  IF complexity_score < LowBelow THEN "low"
        ELSE IF complexity_score < MediumBelow THEN "medium"
        ELSE IF complexity_score < HighBelow THEN "high"
        ELSE "critical"

\* bug_data.get('affected_files', [])
AffectedFiles(bug) ==
    IF "affected_files" \in DOMAIN bug THEN bug.affected_files ELSE <<>>

\* route_bug_report, lines 36-62, on the ownership data of line 33: the
\* routing decisions it may return, or the exception it raises
RouteOutcomes(bug, ownership) ==
    LET context == _extract_bug_context(bug)
    IN  IF IsRaised(context) THEN { context }
        ELSE
        LET potential == _find_potential_assignees(context, ownership,
                                                   AffectedFiles(bug))
        IN  IF IsRaised(potential) THEN { potential }
            ELSE
            LET ranked == _rank_assignees(potential.returned, bug)
                final  == _select_final_assignee(ranked)
            IN  { [ assigned_to          |-> final,
                    backup_assignees     |-> Slice(ranked, 1, BackupEnd),
                    confidence_score     |-> c,
                    routing_reason       |-> _generate_routing_reason(final),
                    escalation_needed    |-> (final = None),
                    suggested_labels     |-> _suggest_labels(context),
                    estimated_complexity |-> _estimate_complexity(context) ] :
                  c \in _calculate_confidence(final) }

-----------------------------------------------------------------------------
(* Specification SpecRoute: one call of route_bug_report on a fresh router,  *)
(* in two steps: lines 30-33 (repository lookup and ownership analysis) and  *)
(* lines 36-62 (context, candidates, ranking, selection, decision)           *)

\* commits within the lookback window in the routed repository
MaxRouteCommits == 2

RouteHistories ==
    { HistoryOf(k) :
        k \in SeqsUpTo({ "alice", "bob", "carol" } \X { "src/auth/login.py" }
                                                  \X { 80 }, MaxRouteCommits) }

\* a dict holding `key` with one of `values`, or not holding it
Optional(key, values) == { EmptyFcn } \cup { key :> v : v \in values }

BugReports ==
    { r @@ t @@ d @@ s @@ a @@ p :
        r \in Optional("repository", { "company/backend-api" }),
        t \in Optional("title", { << "crash" >>, << "login" >> }),
        d \in Optional("description",
                       { << "crash" >>, << "src/auth/login.py" >> }),
        s \in Optional("stack_trace", { << "src/auth/login.py" >> }),
        a \in Optional("affected_files",
                       { << "src/auth/login.py" >>,
                         << "src/auth/login.py", "src/auth/login.py" >> }),
        p \in Optional("priority", { "high" }) }

InitRoute ==
    /\ pc = "route_call"
    /\ bug_data \in BugReports
    /\ repo_history \in RouteHistories
    /\ available \in { Developers, Developers \ { "alice" } }
    /\ cache = EmptyFcn
    /\ fetch_log = <<>>
    /\ all_commits = <<>>
    /\ ownership_data = None
    /\ result = None
    /\ page = Idle /\ ranked_assignees = Idle /\ final_assignee = Idle
    /\ confidence = Idle

\* lines 30-33: bug_data['repository'], then analyze_repository_ownership
RouteAnalyze ==
    /\ pc = "route_call"
    /\ IF "repository" \notin DOMAIN bug_data
       THEN /\ result' = Raised("KeyError", "repository")
            /\ pc' = "route_done"
            /\ UNCHANGED << ownership_data, cache, fetch_log, all_commits >>
       ELSE /\ \E failing \in AllFailurePatterns :
                 LET run == analyze_repository_ownership(cache, fetch_log, failing)
                 IN  /\ ownership_data' = run.ownership_data
                     /\ cache' = run.cache
                     /\ fetch_log' = run.fetch_log
                     /\ all_commits' = run.all_commits
            /\ pc' = "route_analyzed"
            /\ UNCHANGED result
    /\ UNCHANGED << bug_data, repo_history, available, page, ranked_assignees,
                    final_assignee, confidence >>

\* lines 36-62
RouteDecide ==
    /\ pc = "route_analyzed"
    /\ result' \in RouteOutcomes(bug_data, ownership_data)
    /\ pc' = "route_done"
    /\ UNCHANGED << bug_data, repo_history, available, cache, fetch_log, page,
                    all_commits, ownership_data, ranked_assignees,
                    final_assignee, confidence >>

NextRoute == RouteAnalyze \/ RouteDecide

SpecRoute == InitRoute /\ [][NextRoute]_vars

-----------------------------------------------------------------------------
(* Statements about route_bug_report, under SpecRoute *)

\* a bug report with the fields route_bug_report reads unconditionally
HasRequiredFields(bug) == { "repository", "title", "description" } \subseteq DOMAIN bug

DecisionFields ==
    { "assigned_to", "backup_assignees", "confidence_score", "routing_reason",
      "escalation_needed", "suggested_labels", "estimated_complexity" }

IsDecision(value) == DOMAIN value = DecisionFields

\* the ranked list route_bug_report computed on line 46
RankedOnLine46 ==
    _rank_assignees(
        _find_potential_assignees(_extract_bug_context(bug_data), ownership_data,
                                  AffectedFiles(bug_data)).returned,
        bug_data)

\* C2: when the source yields zero change events the ownership model has
\* empty file_ownership, developer_activity and repository_experts, and
\* routing any bug report against it returns assigned_to = None and
\* escalation_needed = true.
C2_EmptyInputEscalates ==
    (pc = "route_done" /\ HasRequiredFields(bug_data) /\ all_commits = <<>>) =>
        /\ DOMAIN ownership_data.file_ownership = {}
        /\ DOMAIN ownership_data.developer_activity = {}
        /\ DOMAIN ownership_data.repository_experts = {}
        /\ IsDecision(result)
        /\ result.assigned_to = None
        /\ result.escalation_needed = TRUE

\* C4: a bug report without a repository or without a title is rejected, and
\* no request to the change-event source is ever issued for it.
C4_ValidationPrecedesFetch ==
    (pc \in { "route_call", "route_analyzed", "route_done" }
       /\ ~ ({ "repository", "title" } \subseteq DOMAIN bug_data)) =>
        /\ fetch_log = <<>>
        /\ pc = "route_done" => IsRaised(result)

\* C5: for a valid bug report and any pattern of refused requests,
\* route_bug_report raises nothing and returns a decision holding all seven
\* fields.
C5_FetchFailuresAbsorbed ==
    (pc = "route_done" /\ HasRequiredFields(bug_data)) =>
        /\ ~ IsRaised(result)
        /\ IsDecision(result)

\* C7: alice alone changed 80 lines of src/auth/login.py; a high-priority
\* report without affected_files whose text mentions src/auth/login.py and
\* contains "login" is routed to alice with ownership_score =
\* complexity_score(80 lines, 1 contributor) * 3, the authentication area
\* matched and escalation_needed = false.
C7_EndToEndScenario ==
    ( /\ pc = "route_done"
      /\ repo_history = HistoryOf(<< << "alice", "src/auth/login.py", 80 >> >>)
      /\ \A i \in 1..Len(fetch_log) : fetch_log[i].status = 200
      /\ bug_data = [ repository  |-> "company/backend-api",
                      title       |-> << "login" >>,
                      description |-> << "src/auth/login.py" >>,
                      priority    |-> "high" ] ) =>
        /\ IsDecision(result)
        /\ result.assigned_to # None
        /\ result.assigned_to.developer = "alice"
        /\ result.assigned_to.ownership_score =
             _calculate_complexity_score(
                 [ total_changes |-> 80, unique_contributors |-> { "alice" } ]) * 3
        /\ << "area", "authentication" >> \in Range(result.suggested_labels)
        /\ result.escalation_needed = FALSE

\* ownership_score owed to a developer when every distinct relevant file
\* counts once: 3 x complexity as primary owner, 1 x as secondary owner
OwnershipOverDistinctFiles(developer) ==
    LET relevant == Range(AffectedFiles(bug_data))
                    \cup Range(_extract_bug_context(bug_data).mentioned_files)
        known == relevant \cap DOMAIN ownership_data.file_ownership
        Share(file_path) ==
            LET o == ownership_data.file_ownership[file_path]
            IN  (IF o.primary_owner = developer THEN 3 * o.complexity_score ELSE 0)
                + (IF developer \in Range(o.secondary_owners)
                   THEN o.complexity_score ELSE 0)
        RECURSIVE Total(_)
        Total(S) == IF S = {} THEN 0
                    ELSE LET f == CHOOSE f \in S : TRUE
                         IN  Share(f) + Total(S \ { f })
    IN  Total(known)

\* C8: the relevant files are the set affected_files union mentioned_files:
\* the loop of lines 133-145, run on the report and the ownership data of
\* the call, credits the owners of each distinct path once, however often
\* the path occurs.
C8_RelevantFilesAreASet ==
    (pc = "route_done" /\ HasRequiredFields(bug_data)) =>
        LET relevant_files == AffectedFiles(bug_data)
                              \o _extract_bug_context(bug_data).mentioned_files
            candidates == ScoreFiles(EmptyDict, relevant_files,
                                     ownership_data.file_ownership)
        IN  \A developer \in Developers :
                Entry(candidates, developer).ownership_score =
                    OwnershipOverDistinctFiles(developer)

\* C9: backup_assignees of every decision is the ranked list's second and
\* third candidates, whoever was selected: a selected rank-2 or rank-3
\* candidate is also a backup, a selected rank-1 candidate never is.
C9_BackupsAreRanks2And3 ==
    (pc = "route_done" /\ HasRequiredFields(bug_data)) =>
        /\ IsDecision(result)
        /\ LET ranked == RankedOnLine46
           IN  /\ result.backup_assignees =
                    [ i \in 1..Min(2, Len(ranked) - 1) |-> ranked[i + 1] ]
               /\ ranked # <<>> =>
                    ( result.assigned_to \in Range(result.backup_assignees)
                        <=> result.assigned_to # ranked[1] )

=============================================================================
